---- MODULE Spec2Model ----
(***************************************************************************)
(* Model of src/src/hello_world.py: the coroutine run_hello_world_demo     *)
(* (the execution monitor and its cleanup) running concurrently with the   *)
(* background task activity_worker on one asyncio event loop.              *)
(*                                                                         *)
(* Scheduling: one thread, cooperative.  The worker task runs only while   *)
(* run_hello_world_demo is suspended at an await (lines 159, 170, 179).    *)
(* Time is a discrete clock `now`; it advances only while a remote call is *)
(* outstanding or a task sleeps, and a sleeping task resumes as soon as    *)
(* its delay has elapsed.                                                  *)
(***************************************************************************)
EXTENDS Integers, FiniteSets, Sequences, TLC

\* ---- bounds of the model ----
MaxTime == 12        \* the clock stops advancing here
MaxSetupTime == 1    \* longest time spent before start_time is read

\* ---- program constants ----
PollInterval == 2    \* asyncio.sleep(2), line 170
ShortDelay == 1      \* asyncio.sleep(1), line 82
LongDelay == 5       \* asyncio.sleep(5), line 86

\* Values of the local `timeout` (line 151).  The source sets 60; the model
\* takes the timeout as a configured input and checks it scaled down, with
\* one value strictly between two poll instants and one on a poll instant.
TimeoutValues == {3, 4}

TerminalStatuses == {"SUCCEEDED", "FAILED", "TIMED_OUT", "ABORTED"}

VARIABLES
  pc,             \* position of run_hello_world_demo
  now,            \* event-loop clock
  timeout,        \* local `timeout`
  start_time,     \* local `start_time`
  sleepUntil,     \* when the monitor's asyncio.sleep(2) completes
  startCalls,     \* number of start_execution requests issued
  describeCalls,  \* number of describe_execution requests issued
  runningSeen,    \* number of describe responses with a non-terminal status
  lastStatus,     \* status of the latest describe response ("none", "error")
  lastOutput,     \* whether the latest describe response carried 'output'
  outcome,        \* how the monitor ended ("none" while it has not)
  reportedOutput, \* whether an output payload was reported
  callsInstant,   \* no time has passed during any describe_execution call
  worker_task,    \* state of the worker task
  cancelRequests, \* number of worker_task.cancel() calls
  wakeAt,         \* when the worker's asyncio.sleep completes
  iterEnd,        \* time at which the worker's latest iteration ended
  prevIter,       \* how that iteration ended: "none", "ok", "error"
  lastGap,        \* delay between that end and the fetch now outstanding
                  \* (-1: the outstanding fetch is the first, or none is)
  fetchCalls,     \* whether a get_activity_task request was ever issued
  tokenReports,   \* send_task_success requests issued for the latest token
  remoteRequests  \* names of the remote operations requested so far

vars == <<pc, now, timeout, start_time, sleepUntil, startCalls, describeCalls,
          runningSeen, lastStatus, lastOutput, outcome, reportedOutput,
          callsInstant, worker_task, cancelRequests, wakeAt, iterEnd,
          prevIter, lastGap, fetchCalls, tokenReports, remoteRequests>>

mainVars == <<pc, timeout, start_time, sleepUntil, startCalls, describeCalls,
              runningSeen, lastStatus, lastOutput, outcome, reportedOutput>>

workerVars == <<worker_task, wakeAt, iterEnd, prevIter, lastGap, fetchCalls,
                tokenReports>>

Init ==
  /\ pc = "create_sm"
  /\ now = 0
  /\ timeout \in TimeoutValues
  /\ start_time = 0
  /\ sleepUntil = 0
  /\ startCalls = 0
  /\ describeCalls = 0
  /\ runningSeen = 0
  /\ lastStatus = "none"
  /\ lastOutput = FALSE
  /\ outcome = "none"
  /\ reportedOutput = FALSE
  /\ callsInstant = TRUE
  /\ worker_task = "unbound"
  /\ cancelRequests = 0
  /\ wakeAt = 0
  /\ iterEnd = 0
  /\ prevIter = "none"
  /\ lastGap = -1
  /\ fetchCalls = FALSE
  /\ tokenReports = 0
  /\ remoteRequests = {}


\* ---------------------------------------------------------------------
\* Scheduling helpers
\* ---------------------------------------------------------------------

\* Variant of MainSuspended: start_execution is awaited too, so the worker
\* may run while the call is outstanding.
MainSuspended_AsyncStart ==
  pc \in {"start_exec", "describe_wait", "sleeping", "await_worker"}

\* run_hello_world_demo is suspended at one of its awaits, so the event
\* loop may run the worker task.
MainSuspended == pc \in {"describe_wait", "sleeping", "await_worker"}

\* Task.cancel() was called and the CancelledError is not yet delivered.
MustCancel == cancelRequests > 0 /\ worker_task \notin {"unbound", "cancelled"}

\* Variant of WorkerMayRun: a requested cancellation does not stop the
\* worker's ordinary steps (the CancelledError is caught like an error).
WorkerMayRun_IgnoreCancel == MainSuspended

\* The worker task may take an ordinary step of its coroutine.
WorkerMayRun == MainSuspended /\ ~MustCancel

\* The worker has nothing to do until a response arrives or its delay ends.
WorkerWaiting ==
  \/ worker_task \in {"fetching", "reporting", "cancelled"}
  \/ worker_task \in {"sleep_short", "sleep_long"} /\ now < wakeAt

\* Variant of TimedOut: the test fires one poll interval early.
TimedOut_Early == now - start_time + PollInterval > timeout

\* `asyncio.get_event_loop().time() - start_time > timeout`
TimedOut == now - start_time > timeout

\* Variant of NextPollTime: the monitor sleeps one unit instead of two.
NextPollTime_Short == now + 1

\* Line 170: the time at which `await asyncio.sleep(2)` completes.
NextPollTime == now + PollInterval

\* A request for remote operation `op` is issued through the client.
Request(op) == remoteRequests' = remoteRequests \cup {op}

\* worker_task.cancel()
Cancel == cancelRequests' = cancelRequests + 1

\* ---------------------------------------------------------------------
\* run_hello_world_demo
\* ---------------------------------------------------------------------

\* Lines 131-138: create the state machine; return at once when that fails.
CreateStateMachine ==
  /\ pc = "create_sm"
  /\ \E ok \in BOOLEAN :
       IF ok
         THEN pc' = "create_task" /\ outcome' = outcome
         ELSE pc' = "returned" /\ outcome' = "create_failed"
  /\ Request("create_state_machine")
  /\ UNCHANGED <<now, timeout, start_time, sleepUntil, startCalls,
                 describeCalls, runningSeen, lastStatus, lastOutput,
                 reportedOutput, callsInstant, cancelRequests>>
  /\ UNCHANGED workerVars

\* Variant of CreateWorkerTask: the task is not created before the
\* execution is started.
CreateWorkerTask_Late ==
  /\ pc = "create_task"
  /\ pc' = "start_exec"
  /\ UNCHANGED <<now, timeout, start_time, sleepUntil, startCalls,
                 describeCalls, runningSeen, lastStatus, lastOutput, outcome,
                 reportedOutput, callsInstant,
                 remoteRequests, cancelRequests>>
  /\ UNCHANGED workerVars

\* Line 142: asyncio.create_task schedules the worker; it has not run yet.
CreateWorkerTask ==
  /\ pc = "create_task"
  /\ worker_task' = "pending"
  /\ pc' = "start_exec"
  /\ UNCHANGED <<now, timeout, start_time, sleepUntil, startCalls,
                 describeCalls, runningSeen, lastStatus, lastOutput, outcome,
                 reportedOutput, callsInstant,
                 remoteRequests, cancelRequests, wakeAt,
                 iterEnd, prevIter, lastGap, fetchCalls, tokenReports>>

\* Variant of StartExecution: the `if not execution_arn` return is missing,
\* so a failed start falls through to the poll loop.
StartExecution_NoReturn ==
  /\ pc = "start_exec"
  /\ startCalls' = startCalls + 1
  /\ \E ok \in BOOLEAN :
       /\ start_time' = now
       /\ pc' = "poll_check"
       /\ outcome' = IF ok THEN outcome ELSE "start_failed"
  /\ Request("start_execution")
  /\ UNCHANGED <<now, timeout, sleepUntil, describeCalls, runningSeen,
                 lastStatus, lastOutput, reportedOutput, callsInstant,
                 cancelRequests>>
  /\ UNCHANGED workerVars

\* Lines 145-152 with 91-112: the synchronous start_execution call.  An
\* error is turned into None by start_hello_world_execution; on success
\* start_time is read.
StartExecution ==
  /\ pc = "start_exec"
  /\ startCalls' = startCalls + 1
  /\ \E ok \in BOOLEAN :
       IF ok
         THEN /\ start_time' = now
              /\ pc' = "poll_check"
              /\ outcome' = outcome
         ELSE /\ start_time' = start_time
              /\ pc' = "start_failed"
              /\ outcome' = "start_failed"
  /\ Request("start_execution")
  /\ UNCHANGED <<now, timeout, sleepUntil, describeCalls, runningSeen,
                 lastStatus, lastOutput, reportedOutput, callsInstant,
                 cancelRequests>>
  /\ UNCHANGED workerVars

\* Lines 146-148: `worker_task.cancel(); return`, which enters `finally`.
CancelOnStartFailure ==
  /\ pc = "start_failed"
  /\ Cancel
  /\ pc' = "finally"
  /\ UNCHANGED <<now, timeout, start_time, sleepUntil, startCalls,
                 describeCalls, runningSeen, lastStatus, lastOutput, outcome,
                 reportedOutput, callsInstant,
                 remoteRequests>>
  /\ UNCHANGED workerVars

\* Variant of PollCheck: on the local timeout the execution is stopped
\* remotely.
PollCheck_StopOnTimeout ==
  /\ pc = "poll_check"
  /\ IF TimedOut
       THEN /\ outcome' = "local_timeout"
            /\ pc' = "finally"
            /\ describeCalls' = describeCalls
            /\ Request("stop_execution")
       ELSE /\ describeCalls' = describeCalls + 1
            /\ pc' = "describe_wait"
            /\ outcome' = outcome
            /\ Request("describe_execution")
  /\ UNCHANGED <<now, timeout, start_time, sleepUntil, startCalls,
                 runningSeen, lastStatus, lastOutput, reportedOutput,
                 callsInstant, cancelRequests>>
  /\ UNCHANGED workerVars

\* Lines 154-162: top of the poll loop.  Either the timeout has passed and
\* the loop is left, or a describe_execution request is issued.
PollCheck ==
  /\ pc = "poll_check"
  /\ IF TimedOut
       THEN /\ outcome' = "local_timeout"
            /\ pc' = "finally"
            /\ describeCalls' = describeCalls
            /\ UNCHANGED remoteRequests
       ELSE /\ describeCalls' = describeCalls + 1
            /\ pc' = "describe_wait"
            /\ outcome' = outcome
            /\ Request("describe_execution")
  /\ UNCHANGED <<now, timeout, start_time, sleepUntil, startCalls,
                 runningSeen, lastStatus, lastOutput, reportedOutput,
                 callsInstant, cancelRequests>>
  /\ UNCHANGED workerVars

\* Variant of DescribeReturn: ABORTED is missing from the list of
\* terminal statuses of line 164.
DescribeReturn_NoAborted ==
  /\ pc = "describe_wait"
  /\ \E status \in TerminalStatuses \cup {"RUNNING", "error"},
        hasOutput \in BOOLEAN :
       /\ status # "SUCCEEDED" => ~hasOutput
       /\ lastStatus' = status
       /\ lastOutput' = hasOutput
       /\ IF status = "error"
            THEN /\ outcome' = "describe_error"
                 /\ pc' = "finally"
                 /\ UNCHANGED <<runningSeen, reportedOutput, sleepUntil>>
            ELSE IF status \in TerminalStatuses \ {"ABORTED"}
              THEN /\ outcome' = status
                   /\ reportedOutput' = hasOutput
                   /\ pc' = "finally"
                   /\ UNCHANGED <<runningSeen, sleepUntil>>
              ELSE /\ runningSeen' = runningSeen + 1
                   /\ sleepUntil' = now + PollInterval
                   /\ pc' = "sleeping"
                   /\ UNCHANGED <<outcome, reportedOutput>>
  /\ UNCHANGED <<now, timeout, start_time, startCalls, describeCalls,
                 callsInstant,
                 remoteRequests, cancelRequests>>
  /\ UNCHANGED workerVars

\* Variant of DescribeReturn: an error of describe_execution is retried
\* after the poll interval instead of ending the loop.
DescribeReturn_RetryOnError ==
  /\ pc = "describe_wait"
  /\ \E status \in TerminalStatuses \cup {"RUNNING", "error"},
        hasOutput \in BOOLEAN :
       /\ status # "SUCCEEDED" => ~hasOutput
       /\ lastStatus' = status
       /\ lastOutput' = hasOutput
       /\ IF status \in TerminalStatuses
            THEN /\ outcome' = status
                 /\ reportedOutput' = hasOutput
                 /\ pc' = "finally"
                 /\ UNCHANGED <<runningSeen, sleepUntil>>
            ELSE /\ runningSeen' = runningSeen + (IF status = "error" THEN 0 ELSE 1)
                 /\ sleepUntil' = now + PollInterval
                 /\ pc' = "sleeping"
                 /\ UNCHANGED <<outcome, reportedOutput>>
  /\ UNCHANGED <<now, timeout, start_time, startCalls, describeCalls,
                 callsInstant,
                 remoteRequests, cancelRequests>>
  /\ UNCHANGED workerVars

\* Variant of DescribeReturn: the timeout is tested again when the response
\* arrives, before its status is looked at.
DescribeReturn_TimeoutAfter ==
  /\ pc = "describe_wait"
  /\ \E status \in TerminalStatuses \cup {"RUNNING", "error"},
        hasOutput \in BOOLEAN :
       /\ status # "SUCCEEDED" => ~hasOutput
       /\ lastStatus' = status
       /\ lastOutput' = hasOutput
       /\ IF status = "error"
            THEN /\ outcome' = "describe_error"
                 /\ pc' = "finally"
                 /\ UNCHANGED <<runningSeen, reportedOutput, sleepUntil>>
            ELSE IF TimedOut
              THEN /\ outcome' = "local_timeout"
                   /\ pc' = "finally"
                   /\ UNCHANGED <<runningSeen, reportedOutput, sleepUntil>>
            ELSE IF status \in TerminalStatuses
              THEN /\ outcome' = status
                   /\ reportedOutput' = hasOutput
                   /\ pc' = "finally"
                   /\ UNCHANGED <<runningSeen, sleepUntil>>
              ELSE /\ runningSeen' = runningSeen + 1
                   /\ sleepUntil' = now + PollInterval
                   /\ pc' = "sleeping"
                   /\ UNCHANGED <<outcome, reportedOutput>>
  /\ UNCHANGED <<now, timeout, start_time, startCalls, describeCalls,
                 callsInstant, remoteRequests, cancelRequests>>
  /\ UNCHANGED workerVars

\* Lines 159-173: the describe_execution response arrives.  A terminal
\* status ends the loop (its output is reported when present), an error is
\* caught by `except Exception`, any other status sleeps PollInterval.
DescribeReturn ==
  /\ pc = "describe_wait"
  /\ \E status \in TerminalStatuses \cup {"RUNNING", "error"},
        hasOutput \in BOOLEAN :
       /\ status # "SUCCEEDED" => ~hasOutput
       /\ lastStatus' = status
       /\ lastOutput' = hasOutput
       /\ IF status = "error"
            THEN /\ outcome' = "describe_error"
                 /\ pc' = "finally"
                 /\ UNCHANGED <<runningSeen, reportedOutput, sleepUntil>>
            ELSE IF status \in TerminalStatuses
              THEN /\ outcome' = status
                   /\ reportedOutput' = hasOutput
                   /\ pc' = "finally"
                   /\ UNCHANGED <<runningSeen, sleepUntil>>
              ELSE /\ runningSeen' = runningSeen + 1
                   /\ sleepUntil' = NextPollTime
                   /\ pc' = "sleeping"
                   /\ UNCHANGED <<outcome, reportedOutput>>
  /\ UNCHANGED <<now, timeout, start_time, startCalls, describeCalls,
                 callsInstant,
                 remoteRequests, cancelRequests>>
  /\ UNCHANGED workerVars

\* Line 170: asyncio.sleep(2) completes; back to the top of the loop.
MonitorWake ==
  /\ pc = "sleeping"
  /\ now >= sleepUntil
  /\ pc' = "poll_check"
  /\ UNCHANGED <<now, timeout, start_time, sleepUntil, startCalls,
                 describeCalls, runningSeen, lastStatus, lastOutput, outcome,
                 reportedOutput, callsInstant,
                 remoteRequests, cancelRequests>>
  /\ UNCHANGED workerVars

\* Lines 174-179: `finally`: cancel the worker, then await it.
Finally ==
  /\ pc = "finally"
  /\ Cancel
  /\ pc' = "await_worker"
  /\ UNCHANGED <<now, timeout, start_time, sleepUntil, startCalls,
                 describeCalls, runningSeen, lastStatus, lastOutput, outcome,
                 reportedOutput, callsInstant,
                 remoteRequests>>
  /\ UNCHANGED workerVars

\* Variant of AwaitWorker: the coroutine returns after cancel() without
\* awaiting the task.
AwaitWorker_NoWait ==
  /\ pc = "await_worker"
  /\ pc' = "returned"
  /\ UNCHANGED <<now, timeout, start_time, sleepUntil, startCalls,
                 describeCalls, runningSeen, lastStatus, lastOutput, outcome,
                 reportedOutput, callsInstant,
                 remoteRequests, cancelRequests>>
  /\ UNCHANGED workerVars

\* Lines 179-181: `await worker_task` completes once the task is done; the
\* CancelledError it raises is swallowed and the coroutine returns.
AwaitWorker ==
  /\ pc = "await_worker"
  /\ worker_task = "cancelled"
  /\ pc' = "returned"
  /\ UNCHANGED <<now, timeout, start_time, sleepUntil, startCalls,
                 describeCalls, runningSeen, lastStatus, lastOutput, outcome,
                 reportedOutput, callsInstant,
                 remoteRequests, cancelRequests>>
  /\ UNCHANGED workerVars

\* ---------------------------------------------------------------------
\* activity_worker
\* ---------------------------------------------------------------------

\* Lines 62-68: a get_activity_task request is issued.
IssueFetch ==
  /\ worker_task' = "fetching"
  /\ fetchCalls' = TRUE
  /\ Request("get_activity_task")
  /\ tokenReports' = 0
  /\ wakeAt' = 0
  /\ iterEnd' = 0

\* Variant of EndIteration: the short delay is used after an error too.
EndIteration_ShortOnly(kind) ==
  /\ worker_task' = IF kind = "error" THEN "sleep_long" ELSE "sleep_short"
  /\ wakeAt' = now + ShortDelay
  /\ iterEnd' = now
  /\ prevIter' = kind
  /\ lastGap' = -1

\* Variant of EndIteration: an error is not caught and ends the task.
EndIteration_Raise(kind) ==
  /\ worker_task' = IF kind = "error" THEN "failed" ELSE "sleep_short"
  /\ wakeAt' = now + ShortDelay
  /\ iterEnd' = now
  /\ prevIter' = kind
  /\ lastGap' = -1

\* End of an iteration: line 82 (no error) or lines 84-86 (error).
EndIteration(kind) ==
  /\ worker_task' = IF kind = "error" THEN "sleep_long" ELSE "sleep_short"
  /\ wakeAt' = now + (IF kind = "error" THEN LongDelay ELSE ShortDelay)
  /\ iterEnd' = now
  /\ prevIter' = kind
  /\ lastGap' = -1

\* First step of the task: the coroutine starts and issues its first fetch.
WorkerStart ==
  /\ WorkerMayRun
  /\ worker_task = "pending"
  /\ IssueFetch
  /\ UNCHANGED <<prevIter, lastGap>>
  /\ UNCHANGED <<now, callsInstant, cancelRequests>>
  /\ UNCHANGED mainVars

\* Lines 65-78: the get_activity_task response arrives: a task token (then
\* send_task_success is issued), no token, or an error.
FetchReturn ==
  /\ WorkerMayRun
  /\ worker_task = "fetching"
  /\ \E resp \in {"token", "empty", "error"} :
       IF resp = "token"
         THEN /\ worker_task' = "reporting"
              /\ tokenReports' = tokenReports + 1
              /\ Request("send_task_success")
              /\ UNCHANGED <<wakeAt, iterEnd, prevIter, lastGap>>
         ELSE /\ EndIteration(IF resp = "error" THEN "error" ELSE "ok")
              /\ UNCHANGED <<tokenReports, remoteRequests>>
  /\ UNCHANGED fetchCalls
  /\ UNCHANGED <<now, callsInstant, cancelRequests>>
  /\ UNCHANGED mainVars

\* Variant of ReportReturn: a failed send_task_success is issued again
\* with the same token.
ReportReturn_Retry ==
  /\ WorkerMayRun
  /\ worker_task = "reporting"
  /\ \E ok \in BOOLEAN :
       IF ok \/ tokenReports >= 2
         THEN EndIteration("ok") /\ UNCHANGED tokenReports
         ELSE /\ tokenReports' = tokenReports + 1
              /\ UNCHANGED <<worker_task, wakeAt, iterEnd, prevIter, lastGap>>
  /\ UNCHANGED fetchCalls
  /\ UNCHANGED <<now, callsInstant, cancelRequests, remoteRequests>>
  /\ UNCHANGED mainVars

\* Lines 74-86: the send_task_success response arrives.
ReportReturn ==
  /\ WorkerMayRun
  /\ worker_task = "reporting"
  /\ \E ok \in BOOLEAN : EndIteration(IF ok THEN "ok" ELSE "error")
  /\ UNCHANGED <<fetchCalls, tokenReports>>
  /\ UNCHANGED <<now, callsInstant, cancelRequests, remoteRequests>>
  /\ UNCHANGED mainVars

\* Lines 82/86 then 62-68: the delay ends and the next fetch is issued.
WorkerWake ==
  /\ WorkerMayRun
  /\ worker_task \in {"sleep_short", "sleep_long"}
  /\ now >= wakeAt
  /\ lastGap' = now - iterEnd
  /\ IssueFetch
  /\ UNCHANGED prevIter
  /\ UNCHANGED <<now, callsInstant, cancelRequests>>
  /\ UNCHANGED mainVars

\* Variant of WorkerCancelled: the CancelledError is caught by the handler
\* of line 84 like any error, and the worker sleeps and loops on.
WorkerCancelled_Swallowed ==
  /\ MainSuspended
  /\ MustCancel
  /\ EndIteration("error")
  /\ UNCHANGED <<fetchCalls, tokenReports>>
  /\ UNCHANGED <<now, callsInstant, cancelRequests, remoteRequests>>
  /\ UNCHANGED mainVars

\* The CancelledError is thrown into the worker at its current await (or
\* before its first step).  It is a BaseException, so `except Exception`
\* (line 84) does not catch it and the task ends cancelled.
WorkerCancelled ==
  /\ MainSuspended
  /\ MustCancel
  /\ worker_task' = "cancelled"
  /\ UNCHANGED <<wakeAt, iterEnd, prevIter, lastGap, fetchCalls, tokenReports>>
  /\ UNCHANGED <<now, callsInstant, cancelRequests, remoteRequests>>
  /\ UNCHANGED mainVars

\* ---------------------------------------------------------------------
\* Time
\* ---------------------------------------------------------------------

\* Time passes during the synchronous remote calls of lines 131 and 145,
\* while a describe_execution call is outstanding and while the monitor
\* sleeps, and only when no task is ready to run.  The clock is bounded by
\* MaxTime; a describe_execution call returns early enough for the sleep
\* that may follow it to end within that bound.
Tick ==
  /\ now < MaxTime
  /\ \/ pc \in {"create_sm", "start_exec"} /\ now < MaxSetupTime
     \/ pc = "describe_wait" /\ WorkerWaiting /\ now + PollInterval < MaxTime
     \/ pc = "sleeping" /\ now < sleepUntil /\ WorkerWaiting
  /\ now' = now + 1
  /\ callsInstant' = (callsInstant /\ pc # "describe_wait")
  /\ UNCHANGED <<cancelRequests, remoteRequests>>
  /\ UNCHANGED mainVars
  /\ UNCHANGED workerVars

Next ==
  \/ CreateStateMachine
  \/ CreateWorkerTask
  \/ StartExecution
  \/ CancelOnStartFailure
  \/ PollCheck
  \/ DescribeReturn
  \/ MonitorWake
  \/ Finally
  \/ AwaitWorker
  \/ WorkerStart
  \/ FetchReturn
  \/ ReportReturn
  \/ WorkerWake
  \/ WorkerCancelled
  \/ Tick

Spec == Init /\ [][Next]_vars

\* The event loop runs every task that is ready, every remote call returns
\* (with a value or an error), and time advances.
Fairness ==
  /\ WF_vars(CreateStateMachine)
  /\ WF_vars(CreateWorkerTask)
  /\ WF_vars(StartExecution)
  /\ WF_vars(CancelOnStartFailure)
  /\ WF_vars(PollCheck)
  /\ WF_vars(DescribeReturn)
  /\ WF_vars(MonitorWake)
  /\ WF_vars(Finally)
  /\ WF_vars(AwaitWorker)
  /\ WF_vars(WorkerStart)
  /\ WF_vars(FetchReturn)
  /\ WF_vars(ReportReturn)
  /\ WF_vars(WorkerWake)
  /\ WF_vars(WorkerCancelled)
  /\ WF_vars(Tick)

LiveSpec == Spec /\ Fairness


\* ---------------------------------------------------------------------
\* Properties
\* ---------------------------------------------------------------------

WorkerCreated == worker_task # "unbound"

WorkerAlive ==
  worker_task \in {"pending", "fetching", "reporting", "sleep_short", "sleep_long"}

MonitorEnded == pc \in {"start_failed", "finally", "await_worker", "returned"}

\* C1: run_hello_world_demo never returns, on a path that created the
\* worker task, while that task is still active: by the return the task
\* has been cancelled and has terminated.
C1_CleanupBeforeReturn ==
  (pc = "returned" /\ WorkerCreated) =>
     (worker_task = "cancelled" /\ cancelRequests >= 1)

\* C1 witness: the operation returned after a local timeout, with a worker
\* that had issued a fetch and was then cancelled.
C1_Witness ==
  /\ pc = "returned"
  /\ outcome = "local_timeout"
  /\ fetchCalls
  /\ worker_task = "cancelled"

\* C2: on every path that created the worker task, cancel() has been called
\* exactly once when run_hello_world_demo returns.
C2_CancelExactlyOnce ==
  (pc = "returned" /\ WorkerCreated) => cancelRequests = 1

\* C3: the local-timeout outcome is produced only when the time elapsed
\* since start_time is at least the timeout.
C3_TimeoutNotEarly ==
  outcome = "local_timeout" => now - start_time >= timeout

\* C3 witness: the monitor gave up on a timeout that falls on a poll
\* instant, after a start that itself took time.
C3_Witness ==
  /\ outcome = "local_timeout"
  /\ timeout = 4
  /\ start_time > 0
  /\ now - start_time > timeout

\* C4: send_task_success is issued at most once for the token of a fetch.
C4_AtMostOnceReport == tokenReports <= 1

\* C4 witness: send_task_success failed for a token and the worker went on
\* to its error delay having issued it once.
C4_Witness ==
  /\ worker_task = "sleep_long"
  /\ tokenReports = 1
  /\ prevIter = "error"

\* C5: a fetch that follows an iteration ended by an error is issued at
\* least LongDelay after the error; one that follows an iteration without
\* error is issued at least ShortDelay after its end.
C5_Backoff ==
  lastGap # -1 =>
     /\ prevIter = "error" => lastGap >= LongDelay
     /\ prevIter = "ok" => lastGap >= ShortDelay
     /\ prevIter \in {"ok", "error"}

\* C5 witness: a fetch outstanding that was issued after an error.
C5_Witness ==
  /\ worker_task = "fetching"
  /\ prevIter = "error"
  /\ lastGap = LongDelay

\* C6: when start_execution fails the monitor ends at once with the failure
\* outcome, no describe_execution is ever issued, and the worker created
\* before the call is cancelled and has terminated by the return.
C6_StartFailure ==
  outcome = "start_failed" =>
     /\ MonitorEnded
     /\ describeCalls = 0
     /\ WorkerCreated
     /\ pc # "start_failed" => cancelRequests >= 1
     /\ pc = "returned" => worker_task = "cancelled"

\* C6 witness: the operation returned after a failed start.
C6_Witness ==
  /\ outcome = "start_failed"
  /\ pc = "returned"
  /\ startCalls = 1

\* C7: once a describe response carries a terminal status the monitor has
\* ended with that status (and its output when present) after exactly one
\* describe call more than the RUNNING responses seen, and polls no more.
C7_StopAtFirstTerminal ==
  lastStatus \in TerminalStatuses =>
     /\ MonitorEnded
     /\ outcome = lastStatus
     /\ reportedOutput = lastOutput
     /\ describeCalls = runningSeen + 1

\* C7 witness: RUNNING twice, then SUCCEEDED with an output: three describe
\* calls, and the operation returned.
C7_Witness ==
  /\ pc = "returned"
  /\ outcome = "SUCCEEDED"
  /\ reportedOutput
  /\ runningSeen = 2
  /\ describeCalls = 3

\* C8: with a timeout of 3, a poll interval of 2 and describe calls that
\* take no time and always answer RUNNING, the monitor gives up after
\* exactly 2 describe calls at elapsed time 4, and the worker is cancelled
\* afterwards.
C8_PollCountAtTimeout ==
  (timeout = 3 /\ PollInterval = 2 /\ callsInstant /\ outcome = "local_timeout") =>
     /\ describeCalls = 2
     /\ runningSeen = 2
     /\ now - start_time = 4
     /\ pc = "finally" => cancelRequests = 0
     /\ pc \in {"await_worker", "returned"} => cancelRequests >= 1
     /\ pc = "returned" => worker_task = "cancelled"

\* C8 witness: the scenario ran to the return.
C8_Witness ==
  /\ timeout = 3
  /\ callsInstant
  /\ outcome = "local_timeout"
  /\ pc = "returned"
  /\ worker_task = "cancelled"

\* C9: the worker task has terminated only if its cancellation was
\* requested; an error of get_activity_task or send_task_success does not
\* end it.
C9_WorkerEndsOnlyByCancel ==
  (WorkerCreated /\ ~WorkerAlive) => cancelRequests > 0

\* C9 witness: after an iteration ended by an error the worker, not
\* cancelled, has issued its next fetch.
C9_Witness ==
  /\ prevIter = "error"
  /\ worker_task = "fetching"
  /\ lastGap # -1
  /\ cancelRequests = 0

\* C10: the worker task is created before start_execution is called,
\* start_execution is called before the first describe_execution, and the
\* worker is cancelled only after the monitor has ended.
C10_Ordering ==
  /\ startCalls > 0 => WorkerCreated
  /\ describeCalls > 0 => startCalls > 0
  /\ cancelRequests > 0 => (outcome # "none" /\ MonitorEnded)

\* C10 witness: a run that polled, ended on a terminal status and cleaned up.
C10_Witness ==
  /\ pc = "returned"
  /\ describeCalls > 0
  /\ outcome \in TerminalStatuses
  /\ cancelRequests > 0

\* C11: once cancel() has been called on the worker task, no step issues a
\* new get_activity_task request, whatever the worker was doing.
C11_NoFetchAfterCancel ==
  [][cancelRequests > 0 =>
       ~(worker_task # "fetching" /\ worker_task' = "fetching")]_vars

\* C11 witness: the worker was cancelled during its long error delay,
\* before the delay had elapsed.
C11_Witness ==
  /\ worker_task = "cancelled"
  /\ cancelRequests > 0
  /\ prevIter = "error"
  /\ lastGap = -1
  /\ now < wakeAt

\* C12: under fair scheduling, remote calls that return and advancing
\* time, every run that created the worker task reaches cleanup and
\* returns, with the worker cancelled.
C12_CleanupReached ==
  WorkerCreated ~> (pc = "returned" /\ cancelRequests > 0 /\ worker_task = "cancelled")

\* C12 witness: a run that polled RUNNING at least once alongside a worker
\* that completed an iteration, then cleaned up and returned.
C12_Witness ==
  /\ pc = "returned"
  /\ worker_task = "cancelled"
  /\ runningSeen >= 1
  /\ prevIter = "ok"
  /\ cancelRequests = 1

\* C13: when a describe_execution call raises, the error is caught inside
\* run_hello_world_demo: the poll loop is left, no further describe call is
\* issued, and the operation goes through cleanup to its normal return.
C13_DescribeErrorCaught ==
  lastStatus = "error" =>
     /\ pc \in {"finally", "await_worker", "returned"}
     /\ outcome = "describe_error"
     /\ describeCalls = runningSeen + 1
     /\ pc # "finally" => cancelRequests = 1
     /\ pc = "returned" => worker_task = "cancelled"

\* C13 witness: RUNNING once, then an error on the second describe call,
\* and the operation returned after cleanup.
C13_Witness ==
  /\ lastStatus = "error"
  /\ runningSeen = 1
  /\ describeCalls = 2
  /\ pc = "returned"
  /\ worker_task = "cancelled"

\* C14: a local timeout is an outcome of its own: it is never produced by
\* the remote status TIMED_OUT nor the other way round, the operation goes
\* on to its normal return, no stop_execution request is ever issued, and
\* from the timeout on no remote request of any kind is issued.
C14_LocalTimeoutLeavesExecution ==
  /\ [](outcome = "local_timeout" =>
          /\ lastStatus = "RUNNING"
          /\ pc \in {"finally", "await_worker", "returned"}
          /\ "stop_execution" \notin remoteRequests)
  /\ [](lastStatus = "TIMED_OUT" => outcome = "TIMED_OUT")
  /\ [][outcome = "local_timeout" =>
          /\ remoteRequests' = remoteRequests
          /\ describeCalls' = describeCalls
          /\ startCalls' = startCalls
          /\ tokenReports' = tokenReports
          /\ worker_task' \in {worker_task, "cancelled"}]_vars

\* C14 witness: the operation returned after a local timeout while the
\* worker had completed work for the execution.
C14_Witness ==
  /\ outcome = "local_timeout"
  /\ pc = "returned"
  /\ timeout = 4
  /\ "send_task_success" \in remoteRequests

\* C15: the worker issues its first get_activity_task only after
\* start_execution has returned successfully; when the start fails the
\* worker is cancelled before its first step and neither get_activity_task
\* nor send_task_success is ever requested.
C15_NoFetchBeforeStart ==
  /\ fetchCalls =>
        /\ "start_execution" \in remoteRequests
        /\ pc \notin {"create_sm", "create_task", "start_exec", "start_failed"}
        /\ outcome # "start_failed"
  /\ outcome = "start_failed" =>
        /\ ~fetchCalls
        /\ remoteRequests \cap {"get_activity_task", "send_task_success"} = {}
        /\ worker_task \in {"pending", "cancelled"}

\* C15 witness: after a failed start the worker ended cancelled without
\* ever having issued a request.
C15_Witness ==
  /\ outcome = "start_failed"
  /\ pc = "returned"
  /\ worker_task = "cancelled"
  /\ ~fetchCalls
  /\ remoteRequests = {"create_state_machine", "start_execution"}

\* C16: the timeout is tested only at the top of the poll loop: a terminal
\* status in a describe response is reported as that status whatever the
\* elapsed time, and at the top of the loop no describe call is issued
\* once the elapsed time exceeds the timeout.
C16_TimeoutTestedBeforeDescribe ==
  /\ [][(pc = "describe_wait" /\ pc' # "describe_wait"
           /\ lastStatus' \in TerminalStatuses) =>
          outcome' = lastStatus']_vars
  /\ [][(pc = "poll_check" /\ now - start_time > timeout) =>
          (describeCalls' = describeCalls /\ outcome' = "local_timeout")]_vars
  /\ [][describeCalls' # describeCalls => now - start_time <= timeout]_vars

\* C16 witness: a terminal status that arrived after the timeout had
\* already elapsed was reported, and the operation returned.
C16_Witness ==
  /\ outcome \in TerminalStatuses
  /\ now - start_time > timeout
  /\ ~callsInstant
  /\ pc = "returned"

====
